---------------------------- MODULE Spec2Model ----------------------------
(***************************************************************************)
(* A model of RoomController (src/controller/room.go): the room and        *)
(* active-user collections of the document store and the controller's      *)
(* operations on them, one action per store round-trip.                    *)
(*                                                                         *)
(* Each call of the controller is run by a process: it starts at Call...,  *)
(* goes through the store reads and writes of the Go function in order,    *)
(* records what the function returns in ret and ends at "done".  Spec,     *)
(* SpecFail, SpecPresence and SpecUpdate run one call at a time; SpecRace  *)
(* interleaves the steps of several CreateRoom calls and SpecConc those of *)
(* CreateRoom, CloseRoom, EnterRoom and LeaveRoom calls.                   *)
(***************************************************************************)
EXTENDS Naturals, FiniteSets, TLC

VARIABLES
    rooms,   \* roomColl: the set of LiveRoom documents
    users,   \* activeUserColl: user ID -> ActiveUser document (never inserted/deleted here)
    pc,      \* per process: the position inside the running call
    call,    \* per process: the running call and its arguments
    loc,     \* per process: the Go function's local variables
    ret,     \* per process: what the call returned
    pre      \* the store as it was when the latest call started

vars == <<rooms, users, pc, call, loc, ret, pre>>

---------------------------------------------------------------------------
(* Bounds and input sets *)

\* c.roomNumberLimit: the configured ceiling (DefaultRoomNumberLimit is 20).
RoomNumberLimit == 3

\* Room IDs and room names are both caller-chosen strings : "a" is in both sets.
RoomIDs == {"a", "b", "c"}

RoomNames == {"a", "x", "y"}

Users == {"u1", "u2", "u3"}

\* The processes: Spec runs every call on process 1, SpecRace uses them all.
Procs == {1, 2, 3}

SeqProcs == {1}

---------------------------------------------------------------------------
(* Entities *)

UserStatusIdle == "idle"

UserStatusSingleLive == "singleLive"

UserStatusPKLive == "pkLive"

UserStatusPKWait == "pkWait"

UserStatusWatching == "watching"

UserStatusJoined == "joined"

UserStatusJoinWait == "joinWait"

\* protocol.LiveRoom{} : the zero value.
ZeroRoom ==
    [ID |-> "", Name |-> "", Creator |-> "", Status |-> "",
     RTCRoom |-> "", PlayURL |-> "", PKAnchor |-> ""]

\* protocol.ActiveUser{} : the zero value (JoinPosition 0 stands for nil).
ZeroUser == [Status |-> "", Room |-> "", JoinPosition |-> 0]

\* The ActiveUser of a user who is in no room.
IdleUser == [Status |-> UserStatusIdle, Room |-> "", JoinPosition |-> 0]

\* The candidate rooms callers hand to CreateRoom.
Candidates ==
    {[ID |-> i, Name |-> n, Creator |-> u, Status |-> "single",
      RTCRoom |-> "", PlayURL |-> "", PKAnchor |-> ""] :
        i \in RoomIDs, n \in RoomNames, u \in Users}

\* Error codes (errors.ServerError codes, and the store's own errors).
ErrNone == ""

ErrTooManyRooms == "TooManyRooms"

ErrRoomNameUsed == "RoomNameUsed"

ErrCanOnlyCreateOneRoom == "CanOnlyCreateOneRoom"

ErrUserWatching == "UserWatching"

ErrUserJoined == "UserJoined"

ErrUserBroadcasting == "UserBroadcasting"

ErrRoomNotFound == "RoomNotFound"

\* The store's raw errors, passed through by the controller.
ErrDuplicateKey == "DuplicateKey"

ErrNoDocuments == "NoDocuments"

---------------------------------------------------------------------------
(* The document store *)

\* roomColl.Find(filter): the documents a filter matches.
FindByName(rs, name) == {r \in rs : r.Name = name}

FindByID(rs, id) == {r \in rs : r.ID = id}

\* roomColl.Find(bson.M{}).Count()
CountAll(rs) == Cardinality(rs)

\* roomColl.Find(bson.M{"creator": creatorID}).Count()
CountByCreator(rs, creatorID) == Cardinality({r \in rs : r.Creator = creatorID})

\* roomColl.InsertOne: _id is the collection's unique key.
InsertFails(rs, room) == FindByID(rs, room.ID) # {}

\* Mutant: the insert replaces the stored room of the same name (an upsert by name).
InsertOne_UpsertByName(rs, room) == {r \in rs : r.Name # room.Name} \cup {room}

InsertOne(rs, room) == rs \cup {room}

\* activeUserColl.UpdateOne(bson.M{"_id": id}, bson.M{"$set": &activeUser}): every
\* field of the struct is written, empty ones included.
SetActiveUser(us, id, activeUser) == [us EXCEPT ![id] = activeUser]

\* A store call that fails for a reason of the store's own (network, server).
ErrStore == "StoreError"

---------------------------------------------------------------------------
(* Process bookkeeping *)

NoCall == [op |-> "", room |-> ZeroRoom, userID |-> "", roomID |-> ""]

\* log: the secondary store failures the call has logged (xl.Errorf) so far.
NoLoc == [room |-> ZeroRoom, activeUser |-> ZeroUser, log |-> {}]

NoRet == [err |-> ErrNone, room |-> ZeroRoom]

NoPre == [rooms |-> {}, users |-> [u \in Users |-> ZeroUser]]

\* The function returns: err and the returned room are recorded.
Return(p, err, room) ==
    /\ pc' = [pc EXCEPT ![p] = "done"]
    /\ ret' = [ret EXCEPT ![p] = [err |-> err, room |-> room]]

Goto(p, label) ==
    /\ pc' = [pc EXCEPT ![p] = label]
    /\ UNCHANGED ret

\* A call starts: the arguments are recorded and the store is snapshot.
Start(p, c, label) ==
    /\ pc[p] = "idle"
    /\ pc' = [pc EXCEPT ![p] = label]
    /\ call' = [call EXCEPT ![p] = c]
    /\ pre' = [rooms |-> rooms, users |-> users]
    /\ UNCHANGED <<rooms, users, loc, ret>>

\* The caller takes the result; the process is free for the next call.
Finish(p) ==
    /\ pc[p] = "done"
    /\ pc' = [pc EXCEPT ![p] = "idle"]
    /\ call' = [call EXCEPT ![p] = NoCall]
    /\ loc' = [loc EXCEPT ![p] = NoLoc]
    /\ ret' = [ret EXCEPT ![p] = NoRet]
    /\ pre' = IF \A q \in Procs \ {p} : pc[q] = "idle" THEN NoPre ELSE pre
    /\ UNCHANGED <<rooms, users>>

---------------------------------------------------------------------------
(* CreateRoom *)

CallCreateRoom(p) ==
    \E room \in Candidates :
        Start(p, [NoCall EXCEPT !.op = "CreateRoom", !.room = room], "cr_count")

\* Mutant: the capacity guard lets one room too many through.
TooManyRooms_OffByOne(n) == n > RoomNumberLimit

\* The capacity guard.
TooManyRooms(n) == n >= RoomNumberLimit

CreateRoom_CountAll(p) ==
    /\ pc[p] = "cr_count"
    /\ IF TooManyRooms(CountAll(rooms))
       THEN Return(p, ErrTooManyRooms, ZeroRoom)
       ELSE Goto(p, "cr_name")
    /\ UNCHANGED <<rooms, users, call, loc, pre>>

\* The name guard, on the room the store returned for the name.
NameUsedByOther(existingRoom, room) == existingRoom.Creator # room.Creator

CreateRoom_FindName(p) ==
    /\ pc[p] = "cr_name"
    /\ LET room == call[p].room
           found == FindByName(rooms, room.Name)
       IN  IF found = {}
           THEN Goto(p, "cr_creator")
           ELSE \E existingRoom \in found :
                    IF NameUsedByOther(existingRoom, room)
                    THEN Return(p, ErrRoomNameUsed, ZeroRoom)
                    ELSE Return(p, ErrNone, existingRoom)
    /\ UNCHANGED <<rooms, users, call, loc, pre>>

\* Mutant: the creator guard allows a second room.
CreatorHasRoom_OffByOne(n) == n > 1

\* The creator guard.
CreatorHasRoom(n) == n > 0

CreateRoom_CountCreator(p) ==
    /\ pc[p] = "cr_creator"
    /\ IF CreatorHasRoom(CountByCreator(rooms, call[p].room.Creator))
       THEN Return(p, ErrCanOnlyCreateOneRoom, ZeroRoom)
       ELSE Goto(p, "cr_user")
    /\ UNCHANGED <<rooms, users, call, loc, pre>>

\* Mutant: the presence guard forgets the users waiting to co-stream.
PresenceGuard_NoJoinWait(activeUser) ==
    IF activeUser.Status = UserStatusWatching THEN ErrUserWatching
    ELSE IF activeUser.Status = UserStatusJoined THEN ErrUserJoined
    ELSE ErrNone

\* The presence guard: the error for the creator's status, ErrNone to go on.
PresenceGuard(activeUser) ==
    IF activeUser.Status = UserStatusWatching THEN ErrUserWatching
    ELSE IF activeUser.Status = UserStatusJoined
            \/ activeUser.Status = UserStatusJoinWait THEN ErrUserJoined
    ELSE ErrNone

CreateRoom_FindUser(p) ==
    /\ pc[p] = "cr_user"
    /\ LET activeUser == users[call[p].room.Creator]
       IN  /\ loc' = [loc EXCEPT ![p].activeUser = activeUser]
           /\ IF PresenceGuard(activeUser) # ErrNone
              THEN Return(p, PresenceGuard(activeUser), ZeroRoom)
              ELSE Goto(p, "cr_insert")
    /\ UNCHANGED <<rooms, users, call, pre>>

CreateRoom_Insert(p) ==
    /\ pc[p] = "cr_insert"
    /\ IF InsertFails(rooms, call[p].room)
       THEN /\ Return(p, ErrDuplicateKey, ZeroRoom)
            /\ UNCHANGED rooms
       ELSE /\ rooms' = InsertOne(rooms, call[p].room)
            /\ Goto(p, "cr_update")
    /\ UNCHANGED <<users, call, loc, pre>>

\* Mutant: the creator is recorded in the room's name, not its ID.
CreatorLive_RoomName(activeUser, room) ==
    [activeUser EXCEPT !.Status = UserStatusSingleLive, !.Room = room.Name]

\* The creator's record as CreateRoom writes it back.
CreatorLive(activeUser, room) ==
    [activeUser EXCEPT !.Status = UserStatusSingleLive, !.Room = room.ID]

CreateRoom_UpdateUser(p) ==
    /\ pc[p] = "cr_update"
    /\ LET room == call[p].room
       IN  /\ users' = SetActiveUser(users, room.Creator, CreatorLive(loc[p].activeUser, room))
           /\ Return(p, ErrNone, room)
    /\ UNCHANGED <<rooms, call, loc, pre>>

CreateRoomStep(p) ==
    \/ CreateRoom_CountAll(p)
    \/ CreateRoom_FindName(p)
    \/ CreateRoom_CountCreator(p)
    \/ CreateRoom_FindUser(p)
    \/ CreateRoom_Insert(p)
    \/ CreateRoom_UpdateUser(p)

---------------------------------------------------------------------------
(* CloseRoom *)

CallCloseRoom(p) ==
    \E userID \in Users, roomID \in RoomIDs :
        Start(p, [NoCall EXCEPT !.op = "CloseRoom", !.userID = userID, !.roomID = roomID],
              "cl_find")

\* Mutant: the lookup forgets the creator.
FindOwned_AnyCreator(rs, roomID, userID) == {r \in rs : r.ID = roomID}

\* roomColl.Find(bson.M{"_id": roomID, "creator": userID})
FindOwned(rs, roomID, userID) == {r \in rs : r.ID = roomID /\ r.Creator = userID}

CloseRoom_Find(p) ==
    /\ pc[p] = "cl_find"
    /\ LET found == FindOwned(rooms, call[p].roomID, call[p].userID)
       IN  IF found = {}
           THEN /\ Return(p, ErrRoomNotFound, ZeroRoom)
                /\ UNCHANGED loc
           ELSE \E room \in found :
                    /\ loc' = [loc EXCEPT ![p].room = room]
                    /\ Goto(p, "cl_remove")
    /\ UNCHANGED <<rooms, users, call, pre>>

\* roomColl.RemoveId
RemoveId(rs, id) == {r \in rs : r.ID # id}

CloseRoom_Remove(p) ==
    /\ pc[p] = "cl_remove"
    /\ IF FindByID(rooms, call[p].roomID) = {}
       THEN /\ Return(p, ErrNoDocuments, ZeroRoom)
            /\ UNCHANGED rooms
       ELSE /\ rooms' = RemoveId(rooms, call[p].roomID)
            /\ Goto(p, "cl_creator")
    /\ UNCHANGED <<users, call, loc, pre>>

\* $set {"room": "", "status": idle} on the creator's record.
CreatorIdle(activeUser) ==
    [activeUser EXCEPT !.Room = "", !.Status = UserStatusIdle]

CloseRoom_UpdateCreator(p) ==
    /\ pc[p] = "cl_creator"
    /\ users' = [users EXCEPT ![call[p].userID] = CreatorIdle(users[call[p].userID])]
    /\ Goto(p, "cl_audience")
    /\ UNCHANGED <<rooms, call, loc, pre>>

\* The statuses that make a user part of a room's audience.
AudienceStatuses == {UserStatusWatching, UserStatusJoinWait, UserStatusJoined}

\* Mutant: only the watching users are reset.
IsAudience_WatchingOnly(activeUser, roomID) ==
    activeUser.Room = roomID /\ activeUser.Status = UserStatusWatching

\* The filter {"room": roomID, "status": {"$in": [...]}} on an ActiveUser.
IsAudience(activeUser, roomID) ==
    activeUser.Room = roomID /\ activeUser.Status \in AudienceStatuses

\* $set {"room": "", "status": idle, "joinPosition": nil}
AudienceIdle(activeUser) ==
    [activeUser EXCEPT !.Room = "", !.Status = UserStatusIdle, !.JoinPosition = 0]

CloseRoom_UpdateAudience(p) ==
    /\ pc[p] = "cl_audience"
    /\ users' = [u \in Users |->
                    IF IsAudience(users[u], call[p].roomID)
                    THEN AudienceIdle(users[u])
                    ELSE users[u]]
    /\ Return(p, ErrNone, ZeroRoom)
    /\ UNCHANGED <<rooms, call, loc, pre>>

CloseRoomStep(p) ==
    \/ CloseRoom_Find(p)
    \/ CloseRoom_Remove(p)
    \/ CloseRoom_UpdateCreator(p)
    \/ CloseRoom_UpdateAudience(p)

---------------------------------------------------------------------------
(* UpdateRoom *)

\* The partial rooms callers hand to UpdateRoom in Spec: a new name or none.
RenamePatches ==
    {[ZeroRoom EXCEPT !.Name = n, !.Status = "single"] : n \in RoomNames \cup {""}}

CallUpdateRoom(p, patches) ==
    \E id \in RoomIDs, newRoom \in patches :
        Start(p, [NoCall EXCEPT !.op = "UpdateRoom", !.roomID = id, !.room = newRoom],
              "up_get")

\* The name is to be changed.
NeedRename(room, newRoom) == newRoom.Name # "" /\ newRoom.Name # room.Name

UpdateRoom_Get(p) ==
    /\ pc[p] = "up_get"
    /\ LET found == FindByID(rooms, call[p].roomID)
       IN  IF found = {}
           THEN /\ Return(p, ErrRoomNotFound, ZeroRoom)
                /\ UNCHANGED loc
           ELSE \E room \in found :
                    /\ loc' = [loc EXCEPT ![p].room = room]
                    /\ Goto(p, IF NeedRename(room, call[p].room) THEN "up_name" ELSE "up_write")
    /\ UNCHANGED <<rooms, users, call, pre>>

\* GetRoomByFields(bson.M{"_id": {"$ne": newRoom.Name}, "name": newRoom.Name})
FindOtherWithName(rs, id, newRoom) ==
    {r \in rs : r.ID # newRoom.Name /\ r.Name = newRoom.Name}

UpdateRoom_CheckName(p) ==
    /\ pc[p] = "up_name"
    /\ IF FindOtherWithName(rooms, call[p].roomID, call[p].room) # {}
       THEN /\ Return(p, ErrRoomNameUsed, ZeroRoom)
            /\ UNCHANGED loc
       ELSE /\ loc' = [loc EXCEPT ![p].room.Name = call[p].room.Name]
            /\ Goto(p, "up_write")
    /\ UNCHANGED <<rooms, users, call, pre>>

\* The field assignments after the name check.
ApplyPatch(room, newRoom) ==
    [room EXCEPT
        !.Status = newRoom.Status,
        !.RTCRoom = IF newRoom.RTCRoom # "" THEN newRoom.RTCRoom ELSE room.RTCRoom,
        !.PlayURL = IF newRoom.PlayURL # "" THEN newRoom.PlayURL ELSE room.PlayURL,
        !.PKAnchor = newRoom.PKAnchor]

\* roomColl.UpdateOne(bson.M{"_id": id}, bson.M{"$set": room})
SetRoom(rs, id, room) == RemoveId(rs, id) \cup {room}

UpdateRoom_Write(p) ==
    /\ pc[p] = "up_write"
    /\ LET room == ApplyPatch(loc[p].room, call[p].room)
       IN  IF FindByID(rooms, call[p].roomID) = {}
           THEN /\ Return(p, ErrNoDocuments, ZeroRoom)
                /\ UNCHANGED <<rooms, loc>>
           ELSE /\ rooms' = SetRoom(rooms, call[p].roomID, room)
                /\ loc' = [loc EXCEPT ![p].room = room]
                /\ Return(p, ErrNone, room)
    /\ UNCHANGED <<users, call, pre>>

UpdateRoomStep(p) ==
    \/ UpdateRoom_Get(p)
    \/ UpdateRoom_CheckName(p)
    \/ UpdateRoom_Write(p)

---------------------------------------------------------------------------
(* EnterRoom and LeaveRoom *)

CallEnterRoom(p) ==
    \E userID \in Users, roomID \in RoomIDs :
        Start(p, [NoCall EXCEPT !.op = "EnterRoom", !.userID = userID, !.roomID = roomID],
              "en_get")

EnterRoom_Get(p) ==
    /\ pc[p] = "en_get"
    /\ LET found == FindByID(rooms, call[p].roomID)
       IN  IF found = {}
           THEN /\ Return(p, ErrRoomNotFound, ZeroRoom)
                /\ UNCHANGED loc
           ELSE \E room \in found :
                    /\ loc' = [loc EXCEPT ![p].room = room]
                    /\ Goto(p, "en_user")
    /\ UNCHANGED <<rooms, users, call, pre>>

\* Mutant: the broadcasters waiting for a PK match are forgotten.
IsBroadcasting_NoPKWait(activeUser) ==
    \/ activeUser.Status = UserStatusSingleLive
    \/ activeUser.Status = UserStatusPKLive

\* The user is live broadcasting (single, PK or waiting for PK).
IsBroadcasting(activeUser) ==
    \/ activeUser.Status = UserStatusSingleLive
    \/ activeUser.Status = UserStatusPKLive
    \/ activeUser.Status = UserStatusPKWait

\* Mutant: the users waiting to co-stream are forgotten.
IsJoining_NoJoinWait(activeUser) == activeUser.Status = UserStatusJoined

\* The user is co-streaming or has asked to.
IsJoining(activeUser) ==
    activeUser.Status = UserStatusJoined \/ activeUser.Status = UserStatusJoinWait

EnterRoom_FindUser(p) ==
    /\ pc[p] = "en_user"
    /\ LET activeUser == users[call[p].userID]
       IN  /\ loc' = [loc EXCEPT ![p].activeUser = activeUser]
           /\ IF IsBroadcasting(activeUser)
              THEN Return(p, ErrUserBroadcasting, ZeroRoom)
              ELSE IF IsJoining(activeUser)
              THEN IF activeUser.Room = call[p].roomID
                   THEN Return(p, ErrNone, loc[p].room)
                   ELSE Return(p, ErrUserJoined, ZeroRoom)
              ELSE Goto(p, "en_update")
    /\ UNCHANGED <<rooms, users, call, pre>>

\* Mutant: a user who is already in a room keeps that room.
UserWatchingRoom_KeepsRoom(activeUser, roomID) ==
    [activeUser EXCEPT !.Status = UserStatusWatching,
                       !.Room = IF activeUser.Room = "" THEN roomID ELSE activeUser.Room]

\* The viewer's record as EnterRoom writes it back.
UserWatchingRoom(activeUser, roomID) ==
    [activeUser EXCEPT !.Status = UserStatusWatching, !.Room = roomID]

EnterRoom_UpdateUser(p) ==
    /\ pc[p] = "en_update"
    /\ users' = SetActiveUser(users, call[p].userID,
                              UserWatchingRoom(loc[p].activeUser, call[p].roomID))
    /\ Return(p, ErrNone, loc[p].room)
    /\ UNCHANGED <<rooms, call, loc, pre>>

EnterRoomStep(p) ==
    \/ EnterRoom_Get(p)
    \/ EnterRoom_FindUser(p)
    \/ EnterRoom_UpdateUser(p)

CallLeaveRoom(p) ==
    \E userID \in Users, roomID \in RoomIDs :
        Start(p, [NoCall EXCEPT !.op = "LeaveRoom", !.userID = userID, !.roomID = roomID],
              "lv_get")

\* GetRoomByID, whose error is logged and dropped.
LeaveRoom_Get(p) ==
    /\ pc[p] = "lv_get"
    /\ Goto(p, "lv_user")
    /\ UNCHANGED <<rooms, users, call, loc, pre>>

LeaveRoom_FindUser(p) ==
    /\ pc[p] = "lv_user"
    /\ LET activeUser == users[call[p].userID]
       IN  /\ loc' = [loc EXCEPT ![p].activeUser = activeUser]
           /\ IF IsBroadcasting(activeUser)
              THEN Return(p, ErrUserBroadcasting, ZeroRoom)
              ELSE Goto(p, "lv_update")
    /\ UNCHANGED <<rooms, users, call, pre>>

\* Mutant: the seat is not given up.
UserLeft_KeepsSeat(activeUser) ==
    [activeUser EXCEPT !.Status = UserStatusIdle, !.Room = ""]

\* The user's record as LeaveRoom writes it back.
UserLeft(activeUser) ==
    [activeUser EXCEPT !.Status = UserStatusIdle, !.Room = "", !.JoinPosition = 0]

LeaveRoom_UpdateUser(p) ==
    /\ pc[p] = "lv_update"
    /\ users' = SetActiveUser(users, call[p].userID, UserLeft(loc[p].activeUser))
    /\ Return(p, ErrNone, ZeroRoom)
    /\ UNCHANGED <<rooms, call, loc, pre>>

LeaveRoomStep(p) ==
    \/ LeaveRoom_Get(p)
    \/ LeaveRoom_FindUser(p)
    \/ LeaveRoom_UpdateUser(p)

---------------------------------------------------------------------------
(* Queries *)

\* GetAudienceNumber: the count and the error it returns, on a store.
GetAudienceNumber(rs, us, roomID) ==
    IF FindByID(rs, roomID) = {}
    THEN [n |-> 0, err |-> ErrRoomNotFound]
    ELSE [n |-> Cardinality({u \in Users :
                    /\ us[u].Room = roomID
                    /\ us[u].Status \in
                          {UserStatusWatching, UserStatusJoined, UserStatusJoinWait}}),
          err |-> ErrNone]

---------------------------------------------------------------------------
(* Co-streaming requests, made by the signalling service between calls:    *)
(* a viewer asks to join (joinWait, with a seat) and is accepted (joined). *)

Quiet == \A p \in Procs : pc[p] = "idle"

RequestJoin(u) ==
    /\ Quiet
    /\ users[u].Status = UserStatusWatching
    /\ users' = [users EXCEPT ![u].Status = UserStatusJoinWait, ![u].JoinPosition = 1]
    /\ UNCHANGED <<rooms, pc, call, loc, ret, pre>>

AcceptJoin(u) ==
    /\ Quiet
    /\ users[u].Status = UserStatusJoinWait
    /\ users' = [users EXCEPT ![u].Status = UserStatusJoined]
    /\ UNCHANGED <<rooms, pc, call, loc, ret, pre>>

---------------------------------------------------------------------------
(* PK requests, made by the signalling service between calls: a solo       *)
(* broadcaster waits for a PK match (pkWait) and is matched (pkLive).      *)

RequestPK(u) ==
    /\ Quiet
    /\ users[u].Status = UserStatusSingleLive
    /\ users' = [users EXCEPT ![u].Status = UserStatusPKWait]
    /\ UNCHANGED <<rooms, pc, call, loc, ret, pre>>

AcceptPK(u) ==
    /\ Quiet
    /\ users[u].Status = UserStatusPKWait
    /\ users' = [users EXCEPT ![u].Status = UserStatusPKLive]
    /\ UNCHANGED <<rooms, pc, call, loc, ret, pre>>

---------------------------------------------------------------------------
(* Failures of the secondary store writes: the update of the creator's     *)
(* record in CreateRoom, and the two updates after RemoveId in CloseRoom.  *)

\* Mutant: the store's error is returned to the caller.
SecondaryFailure_Returned(err) == err

\* What the call reports after a secondary write failed with err: the error
\* is logged and the call goes on.
SecondaryFailure(err) == ErrNone

Logged(p, what) == loc' = [loc EXCEPT ![p].log = @ \cup {what}]

CreateRoom_UpdateUserFails(p) ==
    /\ pc[p] = "cr_update"
    /\ Logged(p, "creator")
    /\ Return(p, SecondaryFailure(ErrStore), call[p].room)
    /\ UNCHANGED <<rooms, users, call, pre>>

CloseRoom_UpdateCreatorFails(p) ==
    /\ pc[p] = "cl_creator"
    /\ Logged(p, "creator")
    /\ Goto(p, "cl_audience")
    /\ UNCHANGED <<rooms, users, call, pre>>

\* UpdateAll is not atomic: a failed call may have reset some of the audience.
CloseRoom_UpdateAudienceFails(p) ==
    /\ pc[p] = "cl_audience"
    /\ Logged(p, "audience")
    /\ \E updated \in SUBSET {u \in Users : IsAudience(users[u], call[p].roomID)} :
          users' = [u \in Users |->
                      IF u \in updated THEN AudienceIdle(users[u]) ELSE users[u]]
    /\ Return(p, SecondaryFailure(ErrStore), ZeroRoom)
    /\ UNCHANGED <<rooms, call, pre>>

---------------------------------------------------------------------------
(* Specifications *)

Init ==
    /\ rooms = {}
    /\ users = [u \in Users |-> IdleUser]
    /\ pc = [p \in Procs |-> "idle"]
    /\ call = [p \in Procs |-> NoCall]
    /\ loc = [p \in Procs |-> NoLoc]
    /\ ret = [p \in Procs |-> NoRet]
    /\ pre = NoPre

Next ==
    \E p \in SeqProcs :
        \/ CallCreateRoom(p)
        \/ CreateRoomStep(p)
        \/ CallCloseRoom(p)
        \/ CloseRoomStep(p)
        \/ CallUpdateRoom(p, RenamePatches)
        \/ UpdateRoomStep(p)
        \/ CallEnterRoom(p)
        \/ EnterRoomStep(p)
        \/ CallLeaveRoom(p)
        \/ LeaveRoomStep(p)
        \/ Finish(p)
        \/ \E u \in Users : RequestJoin(u) \/ AcceptJoin(u)

Spec == Init /\ [][Next]_vars

\* SpecRace: every process makes one CreateRoom call, each with its own
\* pre-assigned room ID, and the store round-trips of the calls interleave.
RaceID(p) == CASE p = 1 -> "a" [] p = 2 -> "b" [] OTHER -> "c"

CallCreateRoomRace(p) ==
    \E room \in {c \in Candidates : c.ID = RaceID(p)} :
        Start(p, [NoCall EXCEPT !.op = "CreateRoom", !.room = room], "cr_count")

NextRace ==
    \E p \in Procs :
        \/ CallCreateRoomRace(p)
        \/ CreateRoomStep(p)

SpecRace == Init /\ [][NextRace]_vars

\* The smaller specifications call the controller with two room IDs, each
\* with one name, and with the users given.
PairIDs == {"a", "b"}

PairUsers == {"u1", "u2"}

PairCandidates(us) ==
    {c \in Candidates :
        /\ c.ID \in PairIDs
        /\ c.Creator \in us
        /\ c.Name = (IF c.ID = "a" THEN "a" ELSE "x")}

CreateRoomCall(p, cands) ==
    \E room \in cands :
        Start(p, [NoCall EXCEPT !.op = "CreateRoom", !.room = room], "cr_count")

CloseRoomCall(p, us, ids) ==
    \E userID \in us, roomID \in ids :
        Start(p, [NoCall EXCEPT !.op = "CloseRoom", !.userID = userID, !.roomID = roomID],
              "cl_find")

EnterRoomCall(p, us, ids) ==
    \E userID \in us, roomID \in ids :
        Start(p, [NoCall EXCEPT !.op = "EnterRoom", !.userID = userID, !.roomID = roomID],
              "en_get")

LeaveRoomCall(p, us, ids) ==
    \E userID \in us, roomID \in ids :
        Start(p, [NoCall EXCEPT !.op = "LeaveRoom", !.userID = userID, !.roomID = roomID],
              "lv_get")

\* SpecFail: one call at a time, where the secondary writes may fail.
NextFail ==
    \E p \in SeqProcs :
        \/ CreateRoomCall(p, PairCandidates(Users))
        \/ CreateRoomStep(p)
        \/ CreateRoom_UpdateUserFails(p)
        \/ CloseRoomCall(p, Users, PairIDs)
        \/ CloseRoomStep(p)
        \/ CloseRoom_UpdateCreatorFails(p)
        \/ CloseRoom_UpdateAudienceFails(p)
        \/ EnterRoomCall(p, Users, PairIDs)
        \/ EnterRoomStep(p)
        \/ Finish(p)

SpecFail == Init /\ [][NextFail]_vars

\* SpecPresence: one call at a time of CreateRoom, CloseRoom, EnterRoom and
\* LeaveRoom, with the signalling service moving users between the viewer
\* statuses and between the broadcaster statuses.
NextPresence ==
    \/ \E p \in SeqProcs :
        \/ CreateRoomCall(p, PairCandidates(Users))
        \/ CreateRoomStep(p)
        \/ CloseRoomCall(p, Users, PairIDs)
        \/ CloseRoomStep(p)
        \/ EnterRoomCall(p, Users, PairIDs)
        \/ EnterRoomStep(p)
        \/ LeaveRoomCall(p, Users, PairIDs)
        \/ LeaveRoomStep(p)
        \/ Finish(p)
    \/ \E u \in Users :
        \/ RequestJoin(u)
        \/ AcceptJoin(u)
        \/ RequestPK(u)
        \/ AcceptPK(u)

SpecPresence == Init /\ [][NextPresence]_vars

\* The partial rooms of SpecUpdate: every combination of a new name or none,
\* a status or none, an RTC room, a play URL and a PK anchor or none.
FieldPatches ==
    {[ZeroRoom EXCEPT !.Name = n, !.Status = st, !.RTCRoom = rtc,
                      !.PlayURL = url, !.PKAnchor = pk] :
        n \in {"", "y"}, st \in {"", "single", "pk"}, rtc \in {"", "rtc1"},
        url \in {"", "url1"}, pk \in {"", "u2"}}

\* SpecUpdate: one call at a time; user u1 creates, updates and closes a room.
NextUpdate ==
    \E p \in SeqProcs :
        \/ CreateRoomCall(p, PairCandidates({"u1"}))
        \/ CreateRoomStep(p)
        \/ CallUpdateRoom(p, FieldPatches)
        \/ UpdateRoomStep(p)
        \/ CloseRoomCall(p, {"u1"}, PairIDs)
        \/ CloseRoomStep(p)
        \/ Finish(p)

SpecUpdate == Init /\ [][NextUpdate]_vars

\* SpecConc: two processes call CreateRoom, CloseRoom, EnterRoom and
\* LeaveRoom again and again, and the store round-trips of their calls
\* interleave.
ConcProcs == {1, 2}

ConcIDs == {"a"}

ConcCandidates == {c \in PairCandidates(PairUsers) : c.ID \in ConcIDs}

NextConc ==
    \E p \in ConcProcs :
        \/ CreateRoomCall(p, ConcCandidates)
        \/ CreateRoomStep(p)
        \/ CloseRoomCall(p, PairUsers, ConcIDs)
        \/ CloseRoomStep(p)
        \/ EnterRoomCall(p, PairUsers, ConcIDs)
        \/ EnterRoomStep(p)
        \/ LeaveRoomCall(p, PairUsers, ConcIDs)
        \/ LeaveRoomStep(p)
        \/ Finish(p)

SpecConc == Init /\ [][NextConc]_vars

---------------------------------------------------------------------------
(* Properties.  In Spec a call runs alone, so pre is the store right       *)
(* before the call and, at "done", rooms and users are the store after it. *)

\* Process p has returned from a call of op.
Returned(p, op) == pc[p] = "done" /\ call[p].op = op

StoreUnchanged == rooms = pre.rooms /\ users = pre.users

\* CreateRoom's guards, stated on the store before the call.
BelowLimit == Cardinality(pre.rooms) < RoomNumberLimit

NameTaken(c) == \E r \in pre.rooms : r.Name = c.Name

OwnsRoom(c) == \E r \in pre.rooms : r.Creator = c.Creator

NamesUnique(rs) == \A r1, r2 \in rs : r1.Name = r2.Name => r1 = r2

\* C1: no two distinct rooms in the store have the same Name.
C1_NameUnique == NamesUnique(rooms)

\* C2: no two distinct rooms in the store have the same Creator, and a
\* completed UpdateRoom leaves every room's ID and Creator as they were.
C2_OneRoomPerCreator ==
    /\ \A r1, r2 \in rooms : r1.Creator = r2.Creator => r1 = r2
    /\ \A p \in SeqProcs :
        Returned(p, "UpdateRoom") =>
            /\ {[ID |-> r.ID, Creator |-> r.Creator] : r \in rooms}
                 = {[ID |-> r.ID, Creator |-> r.Creator] : r \in pre.rooms}
            /\ Cardinality(rooms) = Cardinality(pre.rooms)

\* C2 witness: an UpdateRoom has renamed a room while another creator's room exists.
C2_Witness ==
    /\ Returned(1, "UpdateRoom")
    /\ ret[1].err = ErrNone
    /\ rooms # pre.rooms
    /\ \E r1, r2 \in rooms : r1.Creator # r2.Creator

\* C3: when CreateRoom calls with different room IDs have all returned their
\* own candidate as a success, the store holds every one of these rooms: two
\* calls for one Name (or one Creator) leave two rooms sharing it.
C3_RaceDuplicates ==
    \A p, q \in Procs :
        ( /\ p # q
          /\ Returned(p, "CreateRoom") /\ Returned(q, "CreateRoom")
          /\ ret[p] = [err |-> ErrNone, room |-> call[p].room]
          /\ ret[q] = [err |-> ErrNone, room |-> call[q].room]
          /\ \/ call[p].room.Name = call[q].room.Name
             \/ call[p].room.Creator = call[q].room.Creator )
        => /\ call[p].room \in rooms
           /\ call[q].room \in rooms
           /\ call[p].room # call[q].room

\* C3 witness: three calls have returned success; two of the stored rooms
\* share a Name (different creators) and two share a Creator (different names).
C3_Witness ==
    /\ \A p \in Procs : Returned(p, "CreateRoom")
                          /\ ret[p] = [err |-> ErrNone, room |-> call[p].room]
    /\ \E r1, r2 \in rooms :
          r1.ID # r2.ID /\ r1.Name = r2.Name /\ r1.Creator # r2.Creator
    /\ \E r1, r2 \in rooms :
          r1.ID # r2.ID /\ r1.Creator = r2.Creator /\ r1.Name # r2.Name

\* C4: with the room count at or above the limit, CreateRoom fails
\* TooManyRooms for every candidate and changes neither collection.
C4_CapacityFirst ==
    \A p \in SeqProcs :
        (call[p].op = "CreateRoom" /\ ~BelowLimit) =>
            /\ StoreUnchanged
            /\ pc[p] \in {"cr_count", "done"}
            /\ pc[p] = "done" => ret[p] = [err |-> ErrTooManyRooms, room |-> ZeroRoom]

\* C4 witness: at capacity, a creator re-submits the name of the room they own.
C4_Witness ==
    /\ Returned(1, "CreateRoom")
    /\ ~BelowLimit
    /\ \E r \in pre.rooms :
          r.Name = call[1].room.Name /\ r.Creator = call[1].room.Creator
    /\ ret[1].err = ErrTooManyRooms

\* C5: below the limit, when a room with the candidate's Name and Creator
\* exists, CreateRoom returns that room and changes nothing.
C5_IdempotentCreate ==
    \A p \in SeqProcs :
        ( /\ Returned(p, "CreateRoom")
          /\ BelowLimit
          /\ \E r \in pre.rooms :
                r.Name = call[p].room.Name /\ r.Creator = call[p].room.Creator )
        => /\ ret[p].err = ErrNone
           /\ ret[p].room \in pre.rooms
           /\ ret[p].room.Name = call[p].room.Name
           /\ ret[p].room.Creator = call[p].room.Creator
           /\ StoreUnchanged

\* C5, on stores whose names are unique.
C5_IdempotentCreateUniqueNames ==
    NamesUnique(pre.rooms) => C5_IdempotentCreate

\* C6: below the limit, a candidate whose Name belongs to a room of another
\* creator fails RoomNameUsed; one whose Name is free but whose creator owns a
\* room fails CanOnlyCreateOneRoom; neither changes the store.
C6_NameThenCreator ==
    \A p \in SeqProcs :
        (Returned(p, "CreateRoom") /\ BelowLimit) =>
            /\ (\E r \in pre.rooms :
                    r.Name = call[p].room.Name /\ r.Creator # call[p].room.Creator)
               => (ret[p].err = ErrRoomNameUsed /\ StoreUnchanged)
            /\ (~NameTaken(call[p].room) /\ OwnsRoom(call[p].room))
               => (ret[p].err = ErrCanOnlyCreateOneRoom /\ StoreUnchanged)

\* C6, on stores whose names are unique.
C6_NameThenCreatorUniqueNames ==
    NamesUnique(pre.rooms) => C6_NameThenCreator

\* The capacity, name and creator guards pass for candidate c.
GuardsPass(c) == BelowLimit /\ ~NameTaken(c) /\ ~OwnsRoom(c)

\* C7: when the first three guards pass, a watching creator gets UserWatching
\* and a joined or joinWait creator gets UserJoined; the store is unchanged.
C7_PresenceGuard ==
    \A p \in SeqProcs :
        (Returned(p, "CreateRoom") /\ GuardsPass(call[p].room)) =>
            LET status == pre.users[call[p].room.Creator].Status
            IN  /\ status = "watching"
                   => (ret[p].err = ErrUserWatching /\ StoreUnchanged)
                /\ status \in {"joined", "joinWait"}
                   => (ret[p].err = ErrUserJoined /\ StoreUnchanged)

\* C7 witness: a co-streaming user (joined, with a seat) was refused.
C7_Witness ==
    /\ Returned(1, "CreateRoom")
    /\ GuardsPass(call[1].room)
    /\ pre.users[call[1].room.Creator] =
          [Status |-> "joined", Room |-> "b", JoinPosition |-> 1]
    /\ ret[1].err = ErrUserJoined

\* The creator's status lets CreateRoom go on.
PresenceOK(c) == pre.users[c.Creator].Status \notin {"watching", "joined", "joinWait"}

\* C8: when all four guards pass and the insert is accepted, the candidate is
\* in the store under its ID, the creator is singleLive in that room, and no
\* other room or user has changed.
C8_CreateEffect ==
    \A p \in SeqProcs :
        LET c == call[p].room
        IN  ( /\ Returned(p, "CreateRoom")
              /\ GuardsPass(c) /\ PresenceOK(c)
              /\ \A r \in pre.rooms : r.ID # c.ID )
            => /\ ret[p] = [err |-> ErrNone, room |-> c]
               /\ rooms = pre.rooms \cup {c}
               /\ {r \in rooms : r.ID = c.ID} = {c}
               /\ users[c.Creator].Status = "singleLive"
               /\ users[c.Creator].Room = c.ID
               /\ users[c.Creator].JoinPosition = pre.users[c.Creator].JoinPosition
               /\ \A u \in Users \ {c.Creator} : users[u] = pre.users[u]

\* C8 witness: a room was created beside an existing room that has a viewer.
C8_Witness ==
    /\ Returned(1, "CreateRoom")
    /\ ret[1] = [err |-> ErrNone, room |-> call[1].room]
    /\ call[1].room \notin pre.rooms
    /\ pre.rooms # {}
    /\ \E u \in Users : pre.users[u].Status = "joinWait"

\* C9: CloseRoom fails RoomNotFound and changes nothing when no room has the
\* given ID and Creator; a room leaves the store only during a CloseRoom call
\* made by its recorded Creator for its ID.
C9_OwnerOnlyClose ==
    /\ \A p \in SeqProcs :
        ( /\ Returned(p, "CloseRoom")
          /\ ~\E r \in pre.rooms : r.ID = call[p].roomID /\ r.Creator = call[p].userID )
        => (ret[p].err = ErrRoomNotFound /\ StoreUnchanged)
    /\ \A r \in pre.rooms :
        (~\E r2 \in rooms : r2.ID = r.ID) =>
            \E p \in SeqProcs :
                /\ call[p].op = "CloseRoom"
                /\ call[p].userID = r.Creator
                /\ call[p].roomID = r.ID

\* C9 witness: a user who owns another room tried to close someone else's room.
C9_Witness ==
    /\ Returned(1, "CloseRoom")
    /\ ret[1].err = ErrRoomNotFound
    /\ \E r \in pre.rooms : r.ID = call[1].roomID /\ r.Creator # call[1].userID
    /\ \E r \in pre.rooms : r.Creator = call[1].userID

\* C10: a CloseRoom by the room's creator succeeds; after it the room is gone,
\* the creator is idle with no room, every user who was watching, joinWait or
\* joined in that room is idle with no room and no seat, and all other rooms
\* and users are as before.
C10_CloseCascade ==
    \A p \in SeqProcs :
        LET id == call[p].roomID
            creator == call[p].userID
            inAudience(u) == pre.users[u].Room = id
                             /\ pre.users[u].Status \in {"watching", "joinWait", "joined"}
        IN  ( /\ Returned(p, "CloseRoom")
              /\ \E r \in pre.rooms : r.ID = id /\ r.Creator = creator )
            => /\ ret[p].err = ErrNone
               /\ rooms = {r \in pre.rooms : r.ID # id}
               /\ users[creator].Status = "idle" /\ users[creator].Room = ""
               /\ \A u \in Users :
                    IF inAudience(u)
                    THEN users[u] = [Status |-> "idle", Room |-> "", JoinPosition |-> 0]
                    ELSE u # creator => users[u] = pre.users[u]

\* C10 witness: the closed room had a seated co-streamer and a viewer waiting,
\* and another room stays open.
C10_Witness ==
    /\ Returned(1, "CloseRoom")
    /\ ret[1].err = ErrNone
    /\ \E u1, u2 \in Users :
          /\ pre.users[u1] = [Status |-> "joined", Room |-> call[1].roomID, JoinPosition |-> 1]
          /\ pre.users[u2].Status = "watching" /\ pre.users[u2].Room = call[1].roomID
          /\ users[u1] = IdleUser /\ users[u2] = IdleUser
    /\ pre.rooms # {}

\* C11: a CreateRoom whose creator update failed still returns the new room,
\* which stays in the store, and leaves every ActiveUser as it was; a
\* CloseRoom that has removed the room returns success whatever the creator
\* and audience updates did, and the room stays removed.
C11_SecondaryFailures ==
    \A p \in SeqProcs :
        /\ (Returned(p, "CreateRoom") /\ "creator" \in loc[p].log) =>
              /\ ret[p] = [err |-> ErrNone, room |-> call[p].room]
              /\ call[p].room \notin pre.rooms
              /\ rooms = pre.rooms \cup {call[p].room}
              /\ users = pre.users
        /\ ( /\ Returned(p, "CloseRoom")
             /\ \E r \in pre.rooms : r.ID = call[p].roomID /\ r.Creator = call[p].userID )
           => /\ ret[p].err = ErrNone
              /\ rooms = {r \in pre.rooms : r.ID # call[p].roomID}
        /\ (Returned(p, "CloseRoom") /\ loc[p].log = {"creator", "audience"}) =>
              \A u \in Users :
                 \/ users[u] = pre.users[u]
                 \/ /\ pre.users[u].Room = call[p].roomID
                    /\ users[u] = [Status |-> "idle", Room |-> "", JoinPosition |-> 0]

\* C11 witness: both updates of a CloseRoom failed; the room is gone and its
\* creator and a viewer are still recorded in it.
C11_Witness ==
    /\ Returned(1, "CloseRoom")
    /\ loc[1].log = {"creator", "audience"}
    /\ ret[1].err = ErrNone
    /\ ~\E r \in rooms : r.ID = call[1].roomID
    /\ users = pre.users
    /\ users[call[1].userID].Room = call[1].roomID
    /\ \E u \in Users : users[u].Status = "watching" /\ users[u].Room = call[1].roomID

Broadcasting == {"singleLive", "pkLive", "pkWait"}

\* C12: a user who is singleLive, pkLive or pkWait gets UserBroadcasting from
\* EnterRoom on any existing room and from LeaveRoom on any room ID, and the
\* store is unchanged; no EnterRoom or LeaveRoom call changes the record of a
\* user who was broadcasting when it started.
C12_BroadcastExclusive ==
    \A p \in SeqProcs :
        LET was == pre.users[call[p].userID]
        IN  /\ ( /\ Returned(p, "EnterRoom")
                 /\ was.Status \in Broadcasting
                 /\ \E r \in pre.rooms : r.ID = call[p].roomID )
               => (ret[p].err = ErrUserBroadcasting /\ StoreUnchanged)
            /\ (Returned(p, "LeaveRoom") /\ was.Status \in Broadcasting)
               => (ret[p].err = ErrUserBroadcasting /\ StoreUnchanged)
            /\ call[p].op \in {"EnterRoom", "LeaveRoom"} =>
                  \A u \in Users :
                     pre.users[u].Status \in Broadcasting => users[u] = pre.users[u]

\* C12 witness: a broadcaster waiting for a PK match was refused the leave of
\* a room that does not exist.
C12_Witness ==
    /\ Returned(1, "LeaveRoom")
    /\ pre.users[call[1].userID].Status = "pkWait"
    /\ ~\E r \in pre.rooms : r.ID = call[1].roomID
    /\ ret[1].err = ErrUserBroadcasting

\* C13: for a joined or joinWait user, EnterRoom on the existing room the
\* user is recorded in returns that room, EnterRoom on any other existing
\* room fails UserJoined, and both leave the store unchanged.
C13_IdempotentReentry ==
    \A p \in SeqProcs :
        LET was == pre.users[call[p].userID]
        IN  ( /\ Returned(p, "EnterRoom")
              /\ was.Status \in {"joined", "joinWait"}
              /\ \E r \in pre.rooms : r.ID = call[p].roomID )
            => /\ StoreUnchanged
               /\ IF was.Room = call[p].roomID
                  THEN /\ ret[p].err = ErrNone
                       /\ ret[p].room \in pre.rooms
                       /\ ret[p].room.ID = call[p].roomID
                  ELSE ret[p] = [err |-> ErrUserJoined, room |-> ZeroRoom]

\* C13 witness: a user waiting for a seat in one room was refused another
\* existing room.
C13_Witness ==
    /\ Returned(1, "EnterRoom")
    /\ pre.users[call[1].userID].Status = "joinWait"
    /\ pre.users[call[1].userID].JoinPosition = 1
    /\ \E r \in pre.rooms : r.ID = call[1].roomID
    /\ \E r \in pre.rooms : r.ID = pre.users[call[1].userID].Room
    /\ pre.users[call[1].userID].Room # call[1].roomID
    /\ ret[1].err = ErrUserJoined

\* C14: EnterRoom fails RoomNotFound and changes nothing when the room does
\* not exist; when it exists and the user is idle or watching, the call
\* returns the room and the user is watching it: the audience number of that
\* room counts the user, that of the room the user watched before no longer
\* does, and nothing else changes.
C14_ViewerEntry ==
    \A p \in SeqProcs :
        LET u == call[p].userID
            id == call[p].roomID
            was == pre.users[u]
            before(r) == GetAudienceNumber(pre.rooms, pre.users, r).n
            after(r) == GetAudienceNumber(rooms, users, r).n
        IN  Returned(p, "EnterRoom") =>
              IF ~\E r \in pre.rooms : r.ID = id
              THEN ret[p] = [err |-> ErrRoomNotFound, room |-> ZeroRoom] /\ StoreUnchanged
              ELSE was.Status \in {"idle", "watching"} =>
                     /\ ret[p].err = ErrNone
                     /\ ret[p].room \in pre.rooms /\ ret[p].room.ID = id
                     /\ users[u].Status = "watching" /\ users[u].Room = id
                     /\ rooms = pre.rooms
                     /\ \A v \in Users \ {u} : users[v] = pre.users[v]
                     /\ GetAudienceNumber(rooms, users, id).err = ErrNone
                     /\ after(id) = before(id)
                                      + (IF was.Status = "watching" /\ was.Room = id
                                         THEN 0 ELSE 1)
                     /\ \A r \in pre.rooms :
                          (r.ID # id /\ was.Status = "watching" /\ was.Room = r.ID)
                             => after(r.ID) + 1 = before(r.ID)

\* C14 witness: a user watching one room has entered another; both exist.
C14_Witness ==
    /\ Returned(1, "EnterRoom")
    /\ ret[1].err = ErrNone
    /\ pre.users[call[1].userID].Status = "watching"
    /\ pre.users[call[1].userID].Room # call[1].roomID
    /\ \E r \in rooms : r.ID = pre.users[call[1].userID].Room
    /\ users[call[1].userID].Room = call[1].roomID
    /\ GetAudienceNumber(rooms, users, pre.users[call[1].userID].Room).n = 0
    /\ GetAudienceNumber(rooms, users, call[1].roomID).n = 1

\* C15: for a user who is not broadcasting, LeaveRoom succeeds for every room
\* ID, existing or not, recorded in the user or not, and leaves the user idle
\* with no room and no seat; no room and no other user changes.
C15_LenientLeave ==
    \A p \in SeqProcs :
        (Returned(p, "LeaveRoom") /\ pre.users[call[p].userID].Status \notin Broadcasting)
        => /\ ret[p].err = ErrNone
           /\ users[call[p].userID] = [Status |-> "idle", Room |-> "", JoinPosition |-> 0]
           /\ \A v \in Users \ {call[p].userID} : users[v] = pre.users[v]
           /\ rooms = pre.rooms

\* C15 witness: a seated co-streamer of one room has left through the ID of
\* a room that does not exist.
C15_Witness ==
    /\ Returned(1, "LeaveRoom")
    /\ ret[1].err = ErrNone
    /\ pre.users[call[1].userID].Status = "joined"
    /\ pre.users[call[1].userID].JoinPosition = 1
    /\ pre.users[call[1].userID].Room # call[1].roomID
    /\ ~\E r \in rooms : r.ID = call[1].roomID
    /\ users[call[1].userID] = IdleUser

\* The stored room with the ID of the UpdateRoom call of p, in store rs.
Stored(rs, p) == CHOOSE r \in rs : r.ID = call[p].roomID

\* After a successful UpdateRoom, field f of the stored room is the patch's
\* value when that is not empty, and the value it had before otherwise.
Sparse(p, f) ==
    Stored(rooms, p)[f] = IF call[p].room[f] # "" THEN call[p].room[f]
                          ELSE Stored(pre.rooms, p)[f]

\* C16: after a successful UpdateRoom the stored Status, RTCRoom and PlayURL
\* are the patch's when not empty and unchanged otherwise, PKAnchor is the
\* patch's, and ID and Creator are unchanged.
C16_SparsePatch ==
    \A p \in SeqProcs :
        (Returned(p, "UpdateRoom") /\ ret[p].err = ErrNone) =>
            /\ Sparse(p, "Status")
            /\ Sparse(p, "RTCRoom")
            /\ Sparse(p, "PlayURL")
            /\ Stored(rooms, p).PKAnchor = call[p].room.PKAnchor
            /\ Stored(rooms, p).Creator = Stored(pre.rooms, p).Creator
            /\ Cardinality({r \in rooms : r.ID = call[p].roomID}) = 1

\* C16 without its Status part, and with what the code does to Status.
C16_SparsePatchButStatus ==
    \A p \in SeqProcs :
        (Returned(p, "UpdateRoom") /\ ret[p].err = ErrNone) =>
            /\ Stored(rooms, p).Status = call[p].room.Status
            /\ Sparse(p, "RTCRoom")
            /\ Sparse(p, "PlayURL")
            /\ Stored(rooms, p).PKAnchor = call[p].room.PKAnchor
            /\ Stored(rooms, p).Creator = Stored(pre.rooms, p).Creator
            /\ Cardinality({r \in rooms : r.ID = call[p].roomID}) = 1

\* C17: an UpdateRoom whose patch carries a non-empty Name, different from
\* the room's, that another room (one with a different ID) already has,
\* fails RoomNameUsed and changes no room.
C17_RenameValidated ==
    \A p \in SeqProcs :
        ( /\ Returned(p, "UpdateRoom")
          /\ call[p].room.Name # ""
          /\ \E r \in pre.rooms : r.ID = call[p].roomID /\ r.Name # call[p].room.Name
          /\ \E r \in pre.rooms : r.ID # call[p].roomID /\ r.Name = call[p].room.Name )
        => (ret[p].err = ErrRoomNameUsed /\ StoreUnchanged)

\* C17, for the names that are the ID of no colliding room.
C17_RenameValidatedOtherIDs ==
    \A p \in SeqProcs :
        ( /\ Returned(p, "UpdateRoom")
          /\ call[p].room.Name # ""
          /\ \E r \in pre.rooms : r.ID = call[p].roomID /\ r.Name # call[p].room.Name
          /\ \E r \in pre.rooms : /\ r.ID # call[p].roomID
                                  /\ r.Name = call[p].room.Name
                                  /\ r.ID # call[p].room.Name )
        => (ret[p].err = ErrRoomNameUsed /\ StoreUnchanged)

\* C18: every room in the store whose Status is pk has a non-empty PKAnchor.
C18_PKHasAnchor == \A r \in rooms : r.Status = "pk" => r.PKAnchor # ""

\* No call is in progress.
NoCallRunning == \A p \in Procs : pc[p] \in {"idle", "done"}

\* C19: every user whose Status is watching has the ID of a room in the
\* store as Room.  The claim asks this of every reachable state; it is
\* stated here for the states in which every call has returned, where a
\* CloseRoom that has removed the room has also reset its audience.
C19_NoDanglingViewer ==
    NoCallRunning =>
        \A u \in Users :
            users[u].Status = "watching" => \E r \in rooms : r.ID = users[u].Room

\* C20: when no call is in progress, the creator of every room in the store
\* is singleLive, pkWait or pkLive, with that room as Room.
C20_CreatorBroadcasts ==
    NoCallRunning =>
        \A r \in rooms :
            /\ users[r.Creator].Status \in Broadcasting
            /\ users[r.Creator].Room = r.ID

=============================================================================
